---- MODULE Spec2Model ----
(***************************************************************************)
(* warnsum: summarise compiler warnings found in a build log.              *)
(*                                                                         *)
(* A model of src/src/lib.rs (WarningCollection::new, make_keywords, the   *)
(* four count_warning_* aggregations, diff_hashmaps, make_warning_counts   *)
(* and the Display impl) and of main() in src/src/main.rs.                 *)
(*                                                                         *)
(* Strings are sequences of Unicode code points, so that String's ordering *)
(* (byte-wise on UTF-8, which is code point order) and str::len() (the     *)
(* number of UTF-8 bytes) are computed rather than assumed.  Counts are    *)
(* i16: arithmetic on them either wraps modulo 2^16 or panics, depending   *)
(* on whether the build has overflow checks (debug) or not (release).      *)
(***************************************************************************)
EXTENDS Integers, Sequences, FiniteSets, TLC

VARIABLES
    pc,                 \* the point the run has reached
    overflow_checks,    \* TRUE: debug profile (overflow panics); FALSE: release (wraps)
    content,            \* the log handed to WarningCollection::new
    keyword_len,        \* keyword_len argument
    ignored_keywords,   \* ignored_keywords argument
    top_n,              \* top_n (the Display precision / make_warning_counts argument)
    cwd,                \* what current_dir() answers ("" when it fails)
    collection,         \* the WarningCollection built from content (self)
    other,              \* the WarningCollection built from other_content
    other_content,      \* the log of the second collection of a diff
    difference,         \* the WarningCollectionDiff of collection.diff(other)
    report,             \* what Display writes for collection
    text,               \* make_keywords' text argument
    keywords,           \* make_keywords' result
    key_type,           \* make_warning_counts' type parameter T: "String" or "PathBuf"
    counts,             \* make_warning_counts' warnings argument
    use_total_items,    \* make_warning_counts' use_total_items argument
    formatted           \* make_warning_counts' result

vars == << pc, overflow_checks, content, keyword_len, ignored_keywords, top_n, cwd,
           collection, other, other_content, difference, report,
           text, keywords, key_type, counts, use_total_items, formatted >>

\* A value no operation has produced yet, or an argument the run does not use.
Null == [tag |-> "null"]

\* What an operation that may panic yields: Ok(v) when it returns v, Panic when
\* the thread panicked and nothing is returned.
Ok(v) == [tag |-> "ok", val |-> v]

Panic == [tag |-> "panic"]

IsOk(r) == r.tag = "ok"

\* Option<T>
Some(v) == [tag |-> "some", val |-> v]

None == [tag |-> "none"]

-----------------------------------------------------------------------------
(* Bounds of the model *)

\* Longest excerpt text given to make_keywords, in code points.
MaxTextLen == 5

\* Largest keyword_len tried.
MaxKeywordLen == 3

\* Most keys in a map given to make_warning_counts.
MaxKeys == 3

\* Largest top_n tried.
MaxTopN == 3

\* Most pieces in a log given to main().
MaxPieces == 2

\* Largest top_n given to main().
MaxPrintTopN == 2

\* Most pieces in each of the two logs of a diff.
MaxDiffPieces == 2

-----------------------------------------------------------------------------
(* Strings *)

RECURSIVE SumSeq(_)
SumSeq(s) == IF s = <<>> THEN 0 ELSE Head(s) + SumSeq(Tail(s))

\* The number of bytes of a code point's UTF-8 encoding.
Utf8Len(c) == IF c < 128 THEN 1 ELSE IF c < 2048 THEN 2 ELSE IF c < 65536 THEN 3 ELSE 4

\* str::len(): the length of a string in bytes.
StrLen(s) == SumSeq([i \in 1..Len(s) |-> Utf8Len(s[i])])

\* String's Ord: lexicographic on the bytes, which for UTF-8 is lexicographic
\* on the code points; a proper prefix is smaller.
RECURSIVE StrLess(_, _)
StrLess(a, b) ==
    IF b = <<>> THEN FALSE
    ELSE IF a = <<>> THEN TRUE
    ELSE IF Head(a) # Head(b) THEN Head(a) < Head(b)
    ELSE StrLess(Tail(a), Tail(b))

-----------------------------------------------------------------------------
(* make_keywords *)

\* [a-zA-Z_]
IsWordStart(c) == c \in 65..90 \/ c \in 97..122 \/ c = 95

\* \w of the regex crate, which is Unicode-aware by default: letters, digits,
\* the underscore, and the non-ASCII word characters (of which the model's
\* alphabet holds U+00E9, e with acute).
IsWordChar(c) == IsWordStart(c) \/ c \in 48..57 \/ c = 233

\* \b before position i: exactly one of the characters on its two sides is a
\* word character.
WordBoundary(s, i) ==
    LET before == i > 1 /\ IsWordChar(s[i - 1])
        after  == i <= Len(s) /\ IsWordChar(s[i])
    IN  before # after

\* The end of the longest run of \w starting at i (i - 1 when there is none).
RECURSIVE RunEnd(_, _)
RunEnd(s, i) == IF i <= Len(s) /\ IsWordChar(s[i]) THEN RunEnd(s, i + 1) ELSE i - 1

\* Whether \b[a-zA-Z_]\w+\b matches at position i: the greedy \w+ takes the
\* whole run, after which \b holds.
MatchesAt(s, i) ==
    /\ WordBoundary(s, i)
    /\ IsWordStart(s[i])
    /\ i + 1 <= Len(s)
    /\ IsWordChar(s[i + 1])

\* WORDS_RE.find_iter(text): the non-overlapping matches from left to right.
RECURSIVE FindIterFrom(_, _)
FindIterFrom(s, i) ==
    IF i > Len(s) THEN <<>>
    ELSE IF MatchesAt(s, i)
         THEN << SubSeq(s, i, RunEnd(s, i)) >> \o FindIterFrom(s, RunEnd(s, i) + 1)
         ELSE FindIterFrom(s, i + 1)

find_iter(s) == FindIterFrom(s, 1)

\* (a variant of LongEnough that also drops the tokens of exactly keyword_len bytes)
LongEnough_Strict(word, len) == StrLen(word) > len

\* .filter(|mat| mat.as_str().len() >= keyword_len)
LongEnough(word, len) == StrLen(word) >= len

\* .filter(|&word| !ignored_keywords.iter().any(|ignore| ignore.as_ref() == word))
NotIgnored(word, ignored) == ~ \E ignore \in ignored : ignore = word

make_keywords(s, len, ignored) ==
    LET matches == find_iter(s)
        long    == SelectSeq(matches, LAMBDA w : LongEnough(w, len))
    IN  SelectSeq(long, LAMBDA w : NotIgnored(w, ignored))

-----------------------------------------------------------------------------
(* i16 arithmetic *)

\* i16::MIN and i16::MAX: the range of the counts (HashMap<_, i16>).
I16Min == -32768

I16Max == 32767

InI16(x) == I16Min <= x /\ x <= I16Max

\* Two's complement wrap-around to 16 bits: what a release build computes, and
\* what an `as i16` cast computes in every build.
Wrap16(x) == ((x - I16Min) % (2 * (I16Max + 1))) + I16Min

\* a + b on i16: with overflow checks the thread panics ("attempt to add with
\* overflow"), without them the result wraps.
AddI16(a, b, checks) ==
    IF InI16(a + b) THEN Ok(a + b) ELSE IF checks THEN Panic ELSE Ok(Wrap16(a + b))

\* a - b on i16, likewise.
SubI16(a, b, checks) ==
    IF InI16(a - b) THEN Ok(a - b) ELSE IF checks THEN Panic ELSE Ok(Wrap16(a - b))

\* Iterator::sum::<i16>(): a fold with + from 0, in iteration order.
RECURSIVE FoldSumI16(_, _, _)
FoldSumI16(acc, values, checks) ==
    IF ~IsOk(acc) THEN Panic
    ELSE IF values = <<>> THEN acc
    ELSE FoldSumI16(AddI16(acc.val, Head(values), checks), Tail(values), checks)

\* The elements of a finite set in some order.
RECURSIVE SetToSeq(_)
SetToSeq(S) ==
    IF S = {} THEN <<>>
    ELSE LET x == CHOOSE y \in S : TRUE IN << x >> \o SetToSeq(S \ {x})

\* warnings.values().sum::<i16>().  A HashMap iterates in an unspecified order;
\* the order does not change the outcome: without overflow checks the wrapped sum
\* is the same in every order, and with them every count is positive (a checked
\* build never wraps a count), so the partial sums grow and the fold panics
\* exactly when the whole sum exceeds i16::MAX.
SumValues(m, checks) ==
    FoldSumI16(Ok(0), [i \in 1..Cardinality(DOMAIN m) |-> m[SetToSeq(DOMAIN m)[i]]], checks)

\* The sum of the counts as an integer, for stating the claims.
MathSum(m) == SumSeq([i \in 1..Cardinality(DOMAIN m) |-> m[SetToSeq(DOMAIN m)[i]]])

\* i16::ilog10 for a positive argument (it panics for the others).
RECURSIVE ILog10(_)
ILog10(x) == IF x < 10 THEN 0 ELSE 1 + ILog10(x \div 10)

-----------------------------------------------------------------------------
(* Paths.  A path is its text; the model's paths hold no "." or ".."        *)
(* component, no repeated and no trailing separator, so that a path's text   *)
(* and its components determine each other.                                  *)

\* The text between the separators, the empty pieces included.
RECURSIVE SplitFrom(_, _, _)
SplitFrom(p, i, piece) ==
    IF i > Len(p) THEN << piece >>
    ELSE IF p[i] = 47 THEN << piece >> \o SplitFrom(p, i + 1, <<>>)
    ELSE SplitFrom(p, i + 1, Append(piece, p[i]))

\* Path::components(): RootDir (written <<>> here, which StrLess puts before
\* every Normal component, as Component's derived Ord does) when the text starts
\* with a separator, then the non-empty pieces as Normal components.
Components(p) ==
    LET normal == SelectSeq(SplitFrom(p, 1, <<>>), LAMBDA c : c # <<>>)
    IN  IF p # <<>> /\ p[1] = 47 THEN << <<>> >> \o normal ELSE normal

\* Path's Ord: the components compared as a sequence.
RECURSIVE ComponentsLess(_, _)
ComponentsLess(a, b) ==
    IF b = <<>> THEN FALSE
    ELSE IF a = <<>> THEN TRUE
    ELSE IF Head(a) # Head(b) THEN StrLess(Head(a), Head(b))
    ELSE ComponentsLess(Tail(a), Tail(b))

PathLess(a, b) == ComponentsLess(Components(a), Components(b))

\* The position of the last separator of p (0 when it has none).
LastSlash(p) ==
    LET at == {i \in DOMAIN p : p[i] = 47}
    IN  IF at = {} THEN 0 ELSE CHOOSE i \in at : \A j \in at : j <= i

\* Path::parent(): None when the path ends in a root or is empty, otherwise the
\* path without its last component: Some("") for a bare file name.
parent(p) ==
    IF Components(p) = <<>> \/ Components(p) = << <<>> >> THEN None
    ELSE IF LastSlash(p) = 0 THEN Some(<<>>)
    ELSE IF LastSlash(p) = 1 THEN Some(<< 47 >>)
    ELSE Some(SubSeq(p, 1, LastSlash(p) - 1))

\* Whether a is a prefix of b.
IsPrefix(a, b) == Len(a) <= Len(b) /\ SubSeq(b, 1, Len(a)) = a

\* The components joined by separators, a RootDir giving the leading one.
RECURSIVE JoinComponents(_)
JoinComponents(cs) ==
    IF cs = <<>> THEN <<>>
    ELSE IF Head(cs) = <<>> THEN << 47 >> \o JoinComponents(Tail(cs))
    ELSE IF Tail(cs) = <<>> THEN Head(cs)
    ELSE Head(cs) \o << 47 >> \o JoinComponents(Tail(cs))

\* filename.strip_prefix(&cwd).unwrap_or(&filename): the path after the
\* components of base when it starts with them, the path itself otherwise.
strip_prefix_or_self(p, base) ==
    IF IsPrefix(Components(base), Components(p))
    THEN JoinComponents(SubSeq(Components(p), Len(Components(base)) + 1, Len(Components(p))))
    ELSE p

-----------------------------------------------------------------------------
(* The log and the warnings found in it                                      *)
(*                                                                           *)
(* A log is the sequence of its pieces: a piece is either text WARN_RE does   *)
(* not match, or one diagnostic WARN_RE matches, given by what its groups     *)
(* capture (file, name, and the optional text_before and text_after), and     *)
(* printed `times` times in a row.  Vec<Warning> is kept the same way, as     *)
(* runs of equal warnings, so that logs of more than i16::MAX warnings are    *)
(* within reach.                                                              *)

Diagnostic(file, name, text_before, text_after, times) ==
    [matches |-> TRUE, file |-> file, name |-> name,
     text_before |-> text_before, text_after |-> text_after, times |-> times]

Unmatched == [matches |-> FALSE]

\* keywords: match cap.name("text_after") { Some(capture) => make_keywords(..),
\*   _ => match cap.name("text_before") { Some(capture) => make_keywords(..),
\*                                        _ => Vec::new() } }
KeywordsOf(cap, len, ignored) ==
    IF cap.text_after.tag = "some" THEN make_keywords(cap.text_after.val, len, ignored)
    ELSE IF cap.text_before.tag = "some" THEN make_keywords(cap.text_before.val, len, ignored)
    ELSE <<>>

\* The closure mapping a capture to a Warning.
WarningOf(cap, len, ignored, dir) ==
    [name |-> cap.name,
     file |-> strip_prefix_or_self(cap.file, dir),
     keywords |-> KeywordsOf(cap, len, ignored)]

\* WARN_RE.captures_iter(content).map(..).collect(): the warnings in the order of
\* the matches, as runs.
RECURSIVE Extract(_, _, _, _)
Extract(log, len, ignored, dir) ==
    IF log = <<>> THEN <<>>
    ELSE IF Head(log).matches
         THEN << [warning |-> WarningOf(Head(log), len, ignored, dir),
                  times |-> Head(log).times] >> \o Extract(Tail(log), len, ignored, dir)
         ELSE Extract(Tail(log), len, ignored, dir)

\* warnings.len()
RECURSIVE NumWarnings(_)
NumWarnings(runs) == IF runs = <<>> THEN 0 ELSE Head(runs).times + NumWarnings(Tail(runs))

-----------------------------------------------------------------------------
(* The aggregations *)

\* m.get(k).copied().unwrap_or(0)
Get(m, k) == IF k \in DOMAIN m THEN m[k] ELSE 0

\* The map m with k set to v.
Put(m, k, v) == [j \in DOMAIN m \cup {k} |-> IF j = k THEN v ELSE m[j]]

\* `*count += 1` done n times on one entry: a checked build panics at the
\* increment that would pass i16::MAX, an unchecked one wraps.
AddTimes(c, n, checks) ==
    IF c + n <= I16Max THEN Ok(c + n) ELSE IF checks THEN Panic ELSE Ok(Wrap16(c + n))

\* The loop of count_warning_fn:
\*   for warning in warnings { let count = result.entry(f(warning)).or_insert(0); *count += 1; }
\* f is given as the function from the warnings to their keys.
RECURSIVE CountRuns(_, _, _, _)
CountRuns(f, runs, result, checks) ==
    IF runs = <<>> THEN Ok(result)
    ELSE LET key   == f[Head(runs).warning]
             count == AddTimes(Get(result, key), Head(runs).times, checks)
         IN  IF ~IsOk(count) THEN Panic
             ELSE CountRuns(f, Tail(runs), Put(result, key, count.val), checks)

WarningsIn(runs) == {runs[i].warning : i \in DOMAIN runs}

count_warning_fn(runs, f, checks) == CountRuns(f, runs, << >>, checks)

\* count_warning_fn(warnings, |warning| warning.name.clone())
count_warning_types(runs, checks) ==
    count_warning_fn(runs, [w \in WarningsIn(runs) |-> w.name], checks)

\* count_warning_fn(warnings, |warning| warning.file.clone())
count_warning_files(runs, checks) ==
    count_warning_fn(runs, [w \in WarningsIn(runs) |-> w.file], checks)

\* warning.file.parent().unwrap_or(&warning.file).to_path_buf()
DirectoryOf(file) == IF parent(file).tag = "some" THEN parent(file).val ELSE file

count_warning_directories(runs, checks) ==
    count_warning_fn(runs, [w \in WarningsIn(runs) |-> DirectoryOf(w.file)], checks)

\* The loop of count_warning_keywords over the flattened keywords,
\*   for keyword in keywords { *result.entry(keyword.clone()).or_default() += 1; }
\* for the keywords of one warning, met n times in a row: each pass adds one per
\* occurrence, so after the n passes each keyword has had n increments per
\* occurrence, and a checked build has panicked if any count passed i16::MAX.
RECURSIVE CountKeywords(_, _, _, _)
CountKeywords(words, n, result, checks) ==
    IF words = <<>> THEN Ok(result)
    ELSE LET count == AddTimes(Get(result, Head(words)), n, checks)
         IN  IF ~IsOk(count) THEN Panic
             ELSE CountKeywords(Tail(words), n, Put(result, Head(words), count.val), checks)

RECURSIVE CountKeywordRuns(_, _, _)
CountKeywordRuns(runs, result, checks) ==
    IF runs = <<>> THEN Ok(result)
    ELSE LET next == CountKeywords(Head(runs).warning.keywords, Head(runs).times,
                                   result, checks)
         IN  IF ~IsOk(next) THEN Panic ELSE CountKeywordRuns(Tail(runs), next.val, checks)

count_warning_keywords(runs, checks) == CountKeywordRuns(runs, << >>, checks)

\* WarningCollection::new(content, keyword_len, ignored_keywords), where dir is
\* current_dir().unwrap_or(PathBuf::from("")).
WarningCollection_new(log, len, ignored, dir, checks) ==
    LET result      == Extract(log, len, ignored, dir)
        names       == count_warning_types(result, checks)
        files       == count_warning_files(result, checks)
        directories == count_warning_directories(result, checks)
        kws         == count_warning_keywords(result, checks)
    IN  IF IsOk(names) /\ IsOk(files) /\ IsOk(directories) /\ IsOk(kws)
        THEN Ok([warnings |-> result, names |-> names.val, files |-> files.val,
                 directories |-> directories.val, keywords |-> kws.val])
        ELSE Panic

-----------------------------------------------------------------------------
(* diff *)

\* The loop of diff_hashmaps over the entries of rhs (each key once):
\*   for (name, count) in rhs.iter() { *result.entry(name.clone()).or_default() -= count; }
RECURSIVE SubtractAll(_, _, _, _)
SubtractAll(result, rhs, keys, checks) ==
    IF keys = {} THEN Ok(result)
    ELSE LET name == CHOOSE k \in keys : TRUE
             left == SubI16(Get(result, name), rhs[name], checks)
         IN  IF ~IsOk(left) THEN Panic
             ELSE SubtractAll(Put(result, name, left.val), rhs, keys \ {name}, checks)

\* result.retain(|_, &mut value| value != 0)
Retain(m) == [k \in {j \in DOMAIN m : m[j] # 0} |-> m[k]]

diff_hashmaps(lhs, rhs, checks) ==
    LET result == SubtractAll(lhs, rhs, DOMAIN rhs, checks)
    IN  IF IsOk(result) THEN Ok(Retain(result.val)) ELSE Panic

\* WarningCollection::diff(&self, other)
WarningCollection_diff(self, oth, checks) ==
    LET names       == diff_hashmaps(self.names, oth.names, checks)
        files       == diff_hashmaps(self.files, oth.files, checks)
        directories == diff_hashmaps(self.directories, oth.directories, checks)
        kws         == diff_hashmaps(self.keywords, oth.keywords, checks)
    IN  IF IsOk(names) /\ IsOk(files) /\ IsOk(directories) /\ IsOk(kws)
        THEN Ok([names |-> names.val, files |-> files.val,
                 directories |-> directories.val, keywords |-> kws.val])
        ELSE Panic

-----------------------------------------------------------------------------
(* make_warning_counts *)

\* T's Ord: String's for the names and the keywords, Path's for the files and
\* the directories.
KeyLess(T, a, b) == IF T = "PathBuf" THEN PathLess(a, b) ELSE StrLess(a, b)

\* (a variant of EntryBefore that sorts the counts ascending)
EntryBefore_NoReverse(T, lhs, rhs) ==
    IF lhs.count = rhs.count THEN KeyLess(T, lhs.key, rhs.key) ELSE lhs.count < rhs.count

\* The closure given to sort_by, as "lhs sorts before rhs":
\* if lhs.1 == rhs.1 { lhs.0.cmp(rhs.0) } else { lhs.1.cmp(rhs.1).reverse() }
EntryBefore(T, lhs, rhs) ==
    IF lhs.count = rhs.count THEN KeyLess(T, lhs.key, rhs.key) ELSE lhs.count > rhs.count

\* count_vec after sort_by: the entries of the map in the closure's order (which
\* is total on entries of distinct keys, so the HashMap's order does not show).
RECURSIVE SortedEntries(_, _, _)
SortedEntries(T, m, keys) ==
    IF keys = {} THEN <<>>
    ELSE LET first == CHOOSE k \in keys : \A j \in keys \ {k} :
                          EntryBefore(T, [key |-> k, count |-> m[k]], [key |-> j, count |-> m[j]])
         IN  << [key |-> first, count |-> m[first]] >> \o SortedEntries(T, m, keys \ {first})

\* let max_length = if top_n == 0 { count_vec.len() } else { min(count_vec.len(), top_n) }
max_length(len, n) == IF n = 0 THEN len ELSE IF len < n THEN len ELSE n

\* The decimal text of an integer, as Display for i16 and usize writes it.
RECURSIVE DecimalDigits(_)
DecimalDigits(n) ==
    IF n < 10 THEN << 48 + n >> ELSE Append(DecimalDigits(n \div 10), 48 + (n % 10))

ToDecimal(n) == IF n < 0 THEN << 45 >> \o DecimalDigits(-n) ELSE DecimalDigits(n)

Spaces(n) == [i \in 1..n |-> 32]

\* {:width$} for a number: right-aligned, padded with spaces on the left, never cut.
PadLeft(s, width) == IF Len(s) >= width THEN s ELSE Spaces(width - Len(s)) \o s

\* {:width$} for a string: left-aligned, padded with spaces on the right, never cut.
PadRight(s, width) == IF Len(s) >= width THEN s ELSE s \o Spaces(width - Len(s))

\* format!(r"{1:0$}  {2}", min_width, line.1, line.0.as_ref().display()): a line
\* is kept as its count field and its label, which two spaces separate.
DataLine(width, entry) ==
    [kind |-> "data", field |-> PadLeft(ToDecimal(entry.count), width), label |-> entry.key]

\* (a variant of HasExtra that announces the rest also when nothing was cut)
HasExtra_Always(len, n) == n # 0

\* if count_vec.len() > top_n && top_n != 0
HasExtra(len, n) == len > n /\ n # 0

\* format!("{1:0$}  (+{2} more items)\n", min_width, " ", count_vec.len() - top_n):
\* the label is kept as the number it shows.
ExtraLine(width, len, n) ==
    [kind |-> "extra", field |-> PadRight(<< 32 >>, width), label |-> ToDecimal(len - n)]

\* let total: i16 = if use_total_items { count_vec.len() as i16 } else { warnings.values().sum() }
Total(m, use_total, checks) ==
    IF use_total THEN Ok(Wrap16(Cardinality(DOMAIN m))) ELSE SumValues(m, checks)

\* format!("{1:0$}  Total", min_width, total)
TotalLine(width, total) ==
    [kind |-> "total", field |-> PadLeft(ToDecimal(total), width), label |-> << 84, 111, 116, 97, 108 >>]

\* let min_width = warnings.values().sum::<i16>().ilog10() as usize + 1, where
\* ilog10 panics unless its argument is positive.
min_width(sum) == IF sum <= 0 THEN Panic ELSE Ok(ILog10(sum) + 1)

\* make_warning_counts(warnings, top_n, use_total_items) for keys of type T:
\* Ok of the lines of the string it returns (no line for the empty string), or
\* Panic.  The second sum (for the total) cannot fail where the first did not.
make_warning_counts(T, m, n, use_total, checks) ==
    IF DOMAIN m = {} THEN Ok(<<>>)
    ELSE LET count_vec == SortedEntries(T, m, DOMAIN m)
             sum       == SumValues(m, checks)
         IN  IF ~IsOk(sum) THEN Panic
             ELSE IF ~IsOk(min_width(sum.val)) THEN Panic
             ELSE LET width == min_width(sum.val).val
                      shown == max_length(Len(count_vec), n)
                      result == [i \in 1..shown |-> DataLine(width, count_vec[i])]
                      extra == IF HasExtra(Len(count_vec), n)
                               THEN << ExtraLine(width, Len(count_vec), n) >>
                               ELSE <<>>
                      total_line == TotalLine(width, Total(m, use_total, checks).val)
                  IN  Ok(result \o extra \o << total_line >>)

-----------------------------------------------------------------------------
(* Display *)

\* let top_n = match f.precision() { Some(precision) => precision, _ => 10 }
PrecisionOrDefault(precision) == IF precision.tag = "some" THEN precision.val ELSE 10

\* The top_n the Warnings section is made with: make_warning_counts(&self.names, 0, false)
NamesTopN(n) == 0

\* <WarningCollection as Display>::fmt: the four sections of the text written,
\* each the lines make_warning_counts returned, or Panic.
Display_fmt(self, precision, checks) ==
    LET n           == PrecisionOrDefault(precision)
        names       == make_warning_counts("String", self.names, NamesTopN(n), FALSE, checks)
        files       == make_warning_counts("PathBuf", self.files, n, TRUE, checks)
        directories == make_warning_counts("PathBuf", self.directories, n, TRUE, checks)
        kws         == make_warning_counts("String", self.keywords, n, TRUE, checks)
    IN  IF IsOk(names) /\ IsOk(files) /\ IsOk(directories) /\ IsOk(kws)
        THEN Ok([Warnings |-> names.val, Files |-> files.val,
                 Directories |-> directories.val, Keywords |-> kws.val])
        ELSE Panic

-----------------------------------------------------------------------------
(* The specification of main(): WarningCollection::new, then println!        *)

\* File paths as the log shows them: "a", "/w/a", "/d/b", "/".
LogFiles == { <<97>>, <<47, 119, 47, 97>>, <<47, 100, 47, 98>>, <<47>> }

\* Flag names: "x", "y".
LogNames == { <<120>>, <<121>> }

\* A captured source line, "7 |ab b1 ab" and "7 |ab a" followed by e-acute.
ExcerptOne == << 55, 32, 124, 97, 98, 32, 98, 49, 32, 97, 98 >>

ExcerptTwo == << 55, 32, 124, 97, 98, 32, 97, 233 >>

\* What text_before and text_after capture: neither, the one, the other, or (the
\* pattern allows it) both.
LogExcerpts ==
    { << None, None >>, << Some(ExcerptOne), None >>, << None, Some(ExcerptTwo) >>,
      << Some(ExcerptOne), Some(ExcerptTwo) >> }

\* How often a diagnostic is repeated: once, or as often as an i16 can count.
LogTimes == {1, I16Max}

LogPieces(fs, ns, es, ts) ==
    {Unmatched} \cup
    { Diagnostic(f, n, e[1], e[2], t) : f \in fs, n \in ns, e \in es, t \in ts }

\* The logs of at most max pieces.
LogsOf(pieces, max) == UNION { [1..n -> pieces] : n \in 0..max }

Logs == LogsOf(LogPieces(LogFiles, LogNames, LogExcerpts, LogTimes), MaxPieces)

\* current_dir(): "/w", or "" where it fails.
WorkingDirs == { << 47, 119 >>, <<>> }

Init ==
    /\ pc = "start"
    /\ overflow_checks \in BOOLEAN
    /\ content \in Logs
    /\ keyword_len \in {0, MaxKeywordLen}
    /\ ignored_keywords = { <<97, 98>> }
    /\ top_n \in 0..MaxPrintTopN
    /\ cwd \in WorkingDirs
    /\ collection = Null /\ report = Null
    /\ other = Null /\ other_content = Null /\ difference = Null
    /\ text = Null /\ keywords = Null
    /\ key_type = Null /\ counts = Null /\ use_total_items = FALSE /\ formatted = Null

\* let warnings = WarningCollection::new(&content, args.keyword_len, &args.ignore);
New ==
    /\ pc = "start"
    /\ collection' = WarningCollection_new(content, keyword_len, ignored_keywords, cwd,
                                           overflow_checks)
    /\ pc' = IF IsOk(collection') THEN "built" ELSE "panicked"
    /\ UNCHANGED << overflow_checks, content, keyword_len, ignored_keywords, top_n, cwd,
                    other, other_content, difference, report,
                    text, keywords, key_type, counts, use_total_items, formatted >>

\* println!("{warnings:.width$}", width = &args.top_n): the precision is top_n.
Println ==
    /\ pc = "built"
    /\ report' = Display_fmt(collection.val, Some(top_n), overflow_checks)
    /\ pc' = IF IsOk(report') THEN "done" ELSE "panicked"
    /\ UNCHANGED << overflow_checks, content, keyword_len, ignored_keywords, top_n, cwd,
                    collection, other, other_content, difference,
                    text, keywords, key_type, counts, use_total_items, formatted >>

Next == New \/ Println

Spec == Init /\ [][Next]_vars

-----------------------------------------------------------------------------
(* The specification of a diff of two collections *)

DiffLogs ==
    LogsOf(LogPieces({ <<97>>, <<47, 100, 47, 98>> }, LogNames,
                     { << None, Some(ExcerptTwo) >> }, LogTimes),
           MaxDiffPieces)

InitDiff ==
    /\ pc = "diff_start"
    /\ overflow_checks \in BOOLEAN
    /\ content \in DiffLogs
    /\ other_content \in DiffLogs
    /\ keyword_len = 0
    /\ ignored_keywords = {}
    /\ cwd = <<>>
    /\ top_n = 0
    /\ collection = Null /\ other = Null /\ difference = Null /\ report = Null
    /\ text = Null /\ keywords = Null
    /\ key_type = Null /\ counts = Null /\ use_total_items = FALSE /\ formatted = Null

\* The two collections are built, self first.
NewSelf ==
    /\ pc = "diff_start"
    /\ collection' = WarningCollection_new(content, keyword_len, ignored_keywords, cwd,
                                           overflow_checks)
    /\ pc' = IF IsOk(collection') THEN "diff_self_built" ELSE "panicked"
    /\ UNCHANGED << overflow_checks, content, keyword_len, ignored_keywords, top_n, cwd,
                    other, other_content, difference, report,
                    text, keywords, key_type, counts, use_total_items, formatted >>

NewOther ==
    /\ pc = "diff_self_built"
    /\ other' = WarningCollection_new(other_content, keyword_len, ignored_keywords, cwd,
                                      overflow_checks)
    /\ pc' = IF IsOk(other') THEN "diff_both_built" ELSE "panicked"
    /\ UNCHANGED << overflow_checks, content, keyword_len, ignored_keywords, top_n, cwd,
                    collection, other_content, difference, report,
                    text, keywords, key_type, counts, use_total_items, formatted >>

\* collection.diff(&other)
Diff ==
    /\ pc = "diff_both_built"
    /\ difference' = WarningCollection_diff(collection.val, other.val, overflow_checks)
    /\ pc' = IF IsOk(difference') THEN "diff_done" ELSE "panicked"
    /\ UNCHANGED << overflow_checks, content, keyword_len, ignored_keywords, top_n, cwd,
                    collection, other, other_content, report,
                    text, keywords, key_type, counts, use_total_items, formatted >>

NextDiff == NewSelf \/ NewOther \/ Diff

SpecDiff == InitDiff /\ [][NextDiff]_vars

-----------------------------------------------------------------------------
(* The specification of make_keywords on its own *)

\* a, b, 1, space, e-acute
Alphabet == {97, 98, 49, 32, 233}

Texts == UNION {[1..n -> Alphabet] : n \in 0..MaxTextLen}

\* Ignore lists: nothing, "ab", "ab" and "b1".
IgnoreLists == { {}, {<<97, 98>>}, {<<97, 98>>, <<98, 49>>} }

InitKeywords ==
    /\ pc = "keywords_start"
    /\ text \in Texts
    /\ keyword_len \in 0..MaxKeywordLen
    /\ ignored_keywords \in IgnoreLists
    /\ keywords = Null
    /\ overflow_checks = FALSE
    /\ content = Null /\ top_n = 0 /\ cwd = Null
    /\ collection = Null /\ other = Null /\ other_content = Null
    /\ difference = Null /\ report = Null
    /\ key_type = Null /\ counts = Null /\ use_total_items = FALSE /\ formatted = Null

MakeKeywords ==
    /\ pc = "keywords_start"
    /\ keywords' = make_keywords(text, keyword_len, ignored_keywords)
    /\ pc' = "keywords_done"
    /\ UNCHANGED << overflow_checks, content, keyword_len, ignored_keywords, top_n, cwd,
                    collection, other, other_content, difference, report,
                    text, key_type, counts, use_total_items, formatted >>

NextKeywords == MakeKeywords

SpecKeywords == InitKeywords /\ [][NextKeywords]_vars

-----------------------------------------------------------------------------
(* The specification of make_warning_counts on its own *)

\* Keys: "a", "a-b", "a/b", "b".  String orders "a-b" before "a/b", Path orders
\* a/b (components a, b) before a-b.
KeyUniverse == { <<97>>, <<97, 45, 98>>, <<97, 47, 98>>, <<98>> }

\* Counts an aggregation produces in either build: small ones, those of the
\* crate's own test (3, 120, 1), and the largest an i16 holds.
CountValues == {1, 3, 120, I16Max}

\* The maps of at most MaxKeys keys.
CountMaps ==
    UNION { [keys -> CountValues] :
                keys \in {K \in SUBSET KeyUniverse : Cardinality(K) <= MaxKeys} }

InitFormat ==
    /\ pc = "format_start"
    /\ key_type \in {"String", "PathBuf"}
    /\ counts \in CountMaps
    /\ top_n \in 0..MaxTopN
    /\ use_total_items \in BOOLEAN
    /\ overflow_checks \in BOOLEAN
    /\ formatted = Null
    /\ content = Null /\ keyword_len = 0 /\ ignored_keywords = {} /\ cwd = Null
    /\ collection = Null /\ other = Null /\ other_content = Null
    /\ difference = Null /\ report = Null
    /\ text = Null /\ keywords = Null

MakeWarningCounts ==
    /\ pc = "format_start"
    /\ formatted' = make_warning_counts(key_type, counts, top_n, use_total_items,
                                        overflow_checks)
    /\ pc' = "format_done"
    /\ UNCHANGED << overflow_checks, content, keyword_len, ignored_keywords, top_n, cwd,
                    collection, other, other_content, difference, report,
                    text, keywords, key_type, counts, use_total_items >>

NextFormat == MakeWarningCounts

SpecFormat == InitFormat /\ [][NextFormat]_vars

-----------------------------------------------------------------------------
(* Reading a formatted block back *)

\* The number a count field shows: its decimal text after the padding.
RECURSIVE ParseDigits(_, _)
ParseDigits(s, acc) ==
    IF s = <<>> THEN acc ELSE ParseDigits(Tail(s), 10 * acc + (Head(s) - 48))

RECURSIVE ParseField(_)
ParseField(s) ==
    IF Head(s) = 32 THEN ParseField(Tail(s))
    ELSE IF Head(s) = 45 THEN 0 - ParseDigits(Tail(s), 0)
    ELSE ParseDigits(s, 0)

LinesOfKind(lines, kind) == SelectSeq(lines, LAMBDA l : l.kind = kind)

\* The number of decimal digits of a positive integer.
RECURSIVE NumDigits(_)
NumDigits(n) == IF n < 10 THEN 1 ELSE 1 + NumDigits(n \div 10)

\* make_warning_counts returned a block for a non-empty map.
Formatted == pc = "format_done" /\ IsOk(formatted) /\ DOMAIN counts # {}

-----------------------------------------------------------------------------
(* C1 *)

\* A collection has been built from the log.
Built == pc \in {"built", "done"} /\ IsOk(collection)

\* The keyword occurrences of all the warnings.
RECURSIVE NumKeywordOccurrences(_)
NumKeywordOccurrences(runs) ==
    IF runs = <<>> THEN 0
    ELSE Head(runs).times * Len(Head(runs).warning.keywords)
         + NumKeywordOccurrences(Tail(runs))

\* C1: in the collection built from a log, the counts of the names, of the
\* files and of the directories each add up to the number of warnings, and the
\* counts of the keywords add up to the number of keyword occurrences.
C1_CountsAddUp ==
    Built =>
        LET c == collection.val IN
        /\ MathSum(c.names) = NumWarnings(c.warnings)
        /\ MathSum(c.files) = NumWarnings(c.warnings)
        /\ MathSum(c.directories) = NumWarnings(c.warnings)
        /\ MathSum(c.keywords) = NumKeywordOccurrences(c.warnings)

-----------------------------------------------------------------------------
(* C3 *)

\* C3: building the collection and rendering its report never fail, and a log
\* without a diagnostic gives the empty collection.
C3_NeverFails ==
    /\ pc # "panicked"
    /\ (Built /\ \A i \in DOMAIN content : ~content[i].matches) =>
           /\ collection.val.warnings = <<>>
           /\ DOMAIN collection.val.names = {}
           /\ DOMAIN collection.val.files = {}
           /\ DOMAIN collection.val.directories = {}
           /\ DOMAIN collection.val.keywords = {}

-----------------------------------------------------------------------------
(* C8 *)

\* A section of n entries is cut to top_n: min(n, top_n) data lines and an extra
\* line exactly when n > top_n; all n data lines and no extra line for top_n = 0.
CutTo(lines, n, limit) ==
    /\ Len(LinesOfKind(lines, "data")) = (IF limit = 0 \/ n < limit THEN n ELSE limit)
    /\ Len(LinesOfKind(lines, "extra")) = (IF limit > 0 /\ n > limit THEN 1 ELSE 0)

\* C8: the report cuts each of its four sections to top_n.
C8_EverySectionCut ==
    (pc = "done" /\ IsOk(report)) =>
        LET c == collection.val
            r == report.val
        IN  /\ CutTo(r.Warnings, Cardinality(DOMAIN c.names), top_n)
            /\ CutTo(r.Files, Cardinality(DOMAIN c.files), top_n)
            /\ CutTo(r.Directories, Cardinality(DOMAIN c.directories), top_n)
            /\ CutTo(r.Keywords, Cardinality(DOMAIN c.keywords), top_n)

-----------------------------------------------------------------------------
(* C10 *)

\* The directory the claim gives a file: its parent path, and the file path
\* itself when it has no directory part (a bare file name, the root).
ClaimedDirectory(file) ==
    IF LastSlash(file) = 0 \/ file = << 47 >> THEN file
    ELSE IF LastSlash(file) = 1 THEN << 47 >>
    ELSE SubSeq(file, 1, LastSlash(file) - 1)

\* C10: the keys of the directories map are the parent paths of the warnings'
\* files, a file without a parent directory component counting under its own
\* path, and the aggregation does not fail on such a file.
C10_DirectoryKeys ==
    /\ Built =>
           DOMAIN collection.val.directories =
               {ClaimedDirectory(collection.val.warnings[i].warning.file) :
                    i \in DOMAIN collection.val.warnings}
    /\ (pc = "panicked" /\ ~IsOk(collection)) =>
           \E i \in DOMAIN content : content[i].matches /\ content[i].times > 1

-----------------------------------------------------------------------------
(* C2 *)

\* d is the difference of the maps x and y: its keys are the keys whose counts
\* differ, each with the count in x less the count in y.
IsDifference(d, x, y) ==
    /\ DOMAIN d = {k \in DOMAIN x \cup DOMAIN y : Get(x, k) # Get(y, k)}
    /\ \A k \in DOMAIN d : d[k] = Get(x, k) - Get(y, k)

\* C2: WarningCollection::diff gives, for each of the four maps, the difference
\* of self's map and other's, so that no key with a zero delta appears.
C2_DiffIsDifference ==
    (pc = "diff_done" /\ IsOk(difference)) =>
        LET d == difference.val
            x == collection.val
            y == other.val
        IN  /\ IsDifference(d.names, x.names, y.names)
            /\ IsDifference(d.files, x.files, y.files)
            /\ IsDifference(d.directories, x.directories, y.directories)
            /\ IsDifference(d.keywords, x.keywords, y.keywords)

-----------------------------------------------------------------------------
(* C4 *)

\* The entry a data line shows: its key and the count its field displays.
ShownCount(line) == ParseField(line.field)

\* Entry (c1, k1) comes before entry (c2, k2): larger count first, and for equal
\* counts the smaller key first.
ComesBefore(c1, k1, c2, k2) == c1 > c2 \/ (c1 = c2 /\ KeyLess(key_type, k1, k2))

-----------------------------------------------------------------------------
(* C5 *)

IsSpaces(s) == \A i \in DOMAIN s : s[i] = 32

\* The lines are padded to one column width w: every count is right-aligned to
\* w, and the extra line has w spaces in the place of a count.
PaddedTo(lines, w) ==
    \A i \in DOMAIN lines :
        IF lines[i].kind = "extra"
        THEN lines[i].field = Spaces(w)
        ELSE lines[i].field = PadLeft(ToDecimal(ShownCount(lines[i])), w)

\* C5: with n entries, top_n = 0 shows n data lines and no extra line; top_n > 0
\* shows min(n, top_n) data lines and, exactly when n > top_n, one extra line
\* "(+k more items)" with k = n - top_n whose count field is blank and as wide as
\* the column the data lines are aligned to; the lines come in the order data
\* lines, extra line, Total line.
C5_Truncation ==
    Formatted =>
        LET lines == formatted.val
            n     == Cardinality(DOMAIN counts)
            data  == LinesOfKind(lines, "data")
            extra == LinesOfKind(lines, "extra")
        IN  /\ Len(data) = (IF top_n = 0 \/ n < top_n THEN n ELSE top_n)
            /\ Len(extra) = (IF top_n > 0 /\ n > top_n THEN 1 ELSE 0)
            /\ \A i \in DOMAIN extra :
                  /\ ParseDigits(extra[i].label, 0) = n - top_n
                  /\ IsSpaces(extra[i].field)
            /\ \E w \in 1..5 : PaddedTo(lines, w)
            /\ Len(lines) = Len(data) + Len(extra) + 1
            /\ \A i \in DOMAIN lines :
                  lines[i].kind = (IF i <= Len(data) THEN "data"
                                   ELSE IF i <= Len(data) + Len(extra) THEN "extra"
                                   ELSE "total")

\* A block cut to two data lines, with an extra line announcing one more item
\* under a column three wide.
C5_Witness ==
    /\ Formatted
    /\ top_n = 2
    /\ Cardinality(DOMAIN counts) = 3
    /\ LET extra == LinesOfKind(formatted.val, "extra")
       IN  Len(extra) = 1 /\ extra[1].field = Spaces(3) /\ extra[1].label = << 49 >>

-----------------------------------------------------------------------------
(* C6 *)

\* C6: the last line is the Total line; it shows the sum of all the counts when
\* use_total_items is false and the number of keys when it is true; the other
\* lines are the same under both settings, and the total is the same for every
\* top_n.
C6_TotalLine ==
    Formatted =>
        LET lines    == formatted.val
            last     == lines[Len(lines)]
            flipped  == make_warning_counts(key_type, counts, top_n, ~use_total_items,
                                            overflow_checks)
            unlimited == make_warning_counts(key_type, counts, 0, use_total_items,
                                             overflow_checks)
        IN  /\ last.kind = "total"
            /\ ShownCount(last) = (IF use_total_items THEN Cardinality(DOMAIN counts)
                                   ELSE MathSum(counts))
            /\ IsOk(flipped)
            /\ SubSeq(flipped.val, 1, Len(flipped.val) - 1) = SubSeq(lines, 1, Len(lines) - 1)
            /\ IsOk(unlimited)
            /\ unlimited.val[Len(unlimited.val)] = last

-----------------------------------------------------------------------------
(* C7 *)

\* C7: the count field of every line of the block is exactly as wide as the sum
\* of all the counts has decimal digits, so that no count and no total widens
\* the column.
C7_ColumnWidth ==
    Formatted =>
        \A i \in DOMAIN formatted.val :
            Len(formatted.val[i].field) = NumDigits(MathSum(counts))

-----------------------------------------------------------------------------
(* C9 *)

\* The number of times word occurs in the sequence s.
Occurrences(s, word) == Cardinality({i \in DOMAIN s : s[i] = word})

\* Whether a is b with some elements left out (the order kept).
RECURSIVE IsSubsequence(_, _)
IsSubsequence(a, b) ==
    IF a = <<>> THEN TRUE
    ELSE IF b = <<>> THEN FALSE
    ELSE IF Head(a) = Head(b) THEN IsSubsequence(Tail(a), Tail(b))
    ELSE IsSubsequence(a, Tail(b))

Qualifies(word) == StrLen(word) >= keyword_len /\ word \notin ignored_keywords

====
